---- MODULE Spec2Model ----
(***************************************************************************)
(* A model of gitlab3 (python-gitlab3): the listing/pagination engine, the *)
(* find engine, the create-arity check over the definition tree, the URL   *)
(* resolver, the transport's status mapping, the protect-branch extra      *)
(* action wrapper, get() and the sudo scope over the shared headers.       *)
(* Each component has its own specification over the                       *)
(* shared variables; the variables a component does not use stay at their  *)
(* initial value in that component's specification.                        *)
(***************************************************************************)
EXTENDS Integers, Sequences, FiniteSets, TLC

VARIABLES
    pc,         \* position of the call in progress ("idle" between calls)
    server,     \* the remote listing: [pages, tail]
    args,       \* arguments of the call in progress
    loc,        \* fn's locals limit/page/per_page after the precedence code
    data,       \* the query dict passed to parent._get (page, per_page, sudo)
    gen,        \* _query_list generator frame: [page, last_objs, buf, state]
    iter,       \* for-loop counter of the limit branch / index into cached
    requests,   \* every request sent by the call in progress, in order
    ret,        \* ret list of the call in progress
    outcome,    \* how the call ended: [kind, value]
    ref,        \* the last finished list(limit=L) call on this server
    optLists,   \* heap of the optional_params list objects of the definitions
    nBound,     \* number of binding passes run so far (connections, instances)
    live,       \* the definitions that have a constructed instance
    target,     \* the object handed to an extra action / the resolver input
    headers,    \* _GitLabAPI._headers, the process-wide request headers
    scopes      \* the sudo scopes entered and not yet left, innermost first

vars == <<pc, server, args, loc, data, gen, iter, requests, ret, outcome,
          ref, optLists, nBound, live, target, headers, scopes>>

-----------------------------------------------------------------------------
(* Bounds of the model *)

\* longest explicit page list of a modelled server
MaxPages == 3

\* Python's None / an optional value: <<>> is None, <<v>> is the value v
None == <<>>

Some(v) == <<v>>

\* Python truthiness of an optional integer: None and 0 are false
Truthy(opt) == opt # None /\ opt[1] # 0

Min(a, b) == IF a < b THEN a ELSE b

RECURSIVE Concat(_)
\* concatenation of a sequence of sequences
Concat(ss) == IF ss = <<>> THEN <<>> ELSE Head(ss) \o Concat(Tail(ss))

-----------------------------------------------------------------------------
(* Items and pages served by the remote API *)

\* marker of a field the JSON object does not carry
Missing == "<missing>"

\* the JSON objects of the model; a field may be missing from an object
ItemX1 == [id |-> "1", name |-> "x"]

ItemY2 == [id |-> "2", name |-> "y"]

ItemX3 == [id |-> "3", name |-> "x"]

ItemNoName == [id |-> "4", name |-> Missing]

PageA == <<ItemX1, ItemY2>>

PageB == <<ItemX3>>

PageC == <<ItemNoName, ItemX1>>

\* str() of one JSON object: its present keys and values
ItemStr(it) ==
    <<"{", "id", it.id>> \o
    (IF it.name = Missing THEN <<>> ELSE <<"name", it.name>>) \o <<"}">>

\* str(objs): the printed form of a page
Str(objs) ==
    <<"[">> \o Concat([i \in 1..Len(objs) |-> ItemStr(objs[i])]) \o <<"]">>

\* page number n of the listing: past the explicit pages the server either
\* returns empty pages or keeps repeating its last page
PageAt(srv, n) ==
    IF n < Len(srv.pages) THEN srv.pages[n + 1]
    ELSE IF srv.tail = "repeat" /\ Len(srv.pages) > 0
         THEN srv.pages[Len(srv.pages)]
         ELSE <<>>

\* the server's answer to GET <uq_url>?page=..&per_page=..
Reply(srv, d) ==
    LET raw == PageAt(srv, IF d.page = None THEN 0 ELSE d.page[1])
    IN  IF d.per_page # None /\ d.per_page[1] < Len(raw)
        THEN SubSeq(raw, 1, d.per_page[1])
        ELSE raw

\* api_cls(parent, obj): the ResourceInstance built from a JSON object
ApiObj(obj) == [_parent |-> "parent", fields |-> obj]

WrapAll(objs) == [i \in 1..Len(objs) |-> ApiObj(objs[i])]

-----------------------------------------------------------------------------
(* _query_list: the generator behind unbounded list() and find()           *)

_MAX_PER_PAGE == 100

NoData == [page |-> None, per_page |-> None, sudo |-> None]

GenIdle == [page |-> 0, last_objs |-> None, buf |-> <<>>, state |-> "none"]

\* the generator frame on its first next(): data['per_page'] is set, page = 0
GenStart == [page |-> 0, last_objs |-> None, buf |-> <<>>, state |-> "run"]

\* QueryListStop without the repeat test: only an empty page ends the loop
QueryListStop_EmptyOnly(objs, last_objs) ==
    objs = <<>>

\* the stop test of the loop: an empty page or a page printed like the last
QueryListStop(objs, last_objs) ==
    objs = <<>> \/ Some(Str(objs)) = last_objs

\* QueryListIter without the "if page == 1: try page 2" retry
QueryListIter_NoRetry(g, d, srv) ==
    LET d1   == [d EXCEPT !.per_page = Some(_MAX_PER_PAGE), !.page = Some(g.page)]
        objs == Reply(srv, d1)
    IN  IF QueryListStop(objs, g.last_objs)
        THEN [req |-> d1, gen |-> [g EXCEPT !.state = "finished"]]
        ELSE [req |-> d1,
              gen |-> [g EXCEPT !.last_objs = Some(Str(objs)),
                                !.page = g.page + 1,
                                !.buf = WrapAll(objs)]]

\* one iteration of the while loop: the request it sends and the frame
\* after it (buf holds the objects of the page still to be yielded)
QueryListIter(g, d, srv) ==
    LET d1   == [d EXCEPT !.per_page = Some(_MAX_PER_PAGE), !.page = Some(g.page)]
        objs == Reply(srv, d1)
    IN  IF QueryListStop(objs, g.last_objs)
        THEN IF g.page = 1
             THEN [req |-> d1, gen |-> [g EXCEPT !.page = g.page + 1]]
             ELSE [req |-> d1, gen |-> [g EXCEPT !.state = "finished"]]
        ELSE [req |-> d1,
              gen |-> [g EXCEPT !.last_objs = Some(Str(objs)),
                                !.page = g.page + 1,
                                !.buf = WrapAll(objs)]]

-----------------------------------------------------------------------------
(* list(): _add_list_fn.fn                                                 *)

\* the limits, pages and page sizes a caller passes
Limits == {None, Some(0), Some(1), Some(_MAX_PER_PAGE),
           Some(_MAX_PER_PAGE + 1), Some(2 * _MAX_PER_PAGE),
           Some(2 * _MAX_PER_PAGE + 1)}

PageArgs == {None, Some(1), Some(2)}

PerPageArgs == {None, Some(1)}

NoArgs == [op |-> "none"]

NoOutcome == [kind |-> "none"]

\* ListLocals without the reset of page and per_page when a limit is given
ListLocals_KeepPaging(limit, page, per_page) ==
    IF Truthy(limit) /\ limit[1] <= _MAX_PER_PAGE
    THEN [limit |-> None, page |-> page, per_page |-> limit]
    ELSE [limit |-> limit, page |-> page, per_page |-> per_page]

\* the locals after "give limit precedence" and the single-page shortcut
ListLocals(limit, page, per_page) ==
    LET p == IF Truthy(limit) THEN None ELSE page
        q == IF Truthy(limit) THEN None ELSE per_page
    IN  IF Truthy(limit) /\ limit[1] <= _MAX_PER_PAGE
        THEN [limit |-> None, page |-> p, per_page |-> limit]
        ELSE [limit |-> limit, page |-> p, per_page |-> q]

\* int(ceil(float(limit) / _MAX_PER_PAGE))
NumPages(limit) == (limit + _MAX_PER_PAGE - 1) \div _MAX_PER_PAGE

\* which branch of fn runs
ListBranch(l) ==
    IF Truthy(l.page) \/ Truthy(l.per_page) THEN "list_page"
    ELSE IF Truthy(l.limit) THEN "list_limit"
    ELSE "list_full"

ListCall(limit, page, per_page) ==
    /\ pc = "idle"
    /\ args' = [op |-> "list", limit |-> limit, page |-> page,
                per_page |-> per_page]
    /\ loc' = ListLocals(limit, page, per_page)
    /\ pc' = ListBranch(loc')
    /\ data' = NoData
    /\ gen' = IF pc' = "list_full" THEN GenStart ELSE GenIdle
    /\ iter' = 1
    /\ requests' = <<>>
    /\ ret' = <<>>
    /\ outcome' = NoOutcome
    /\ UNCHANGED <<server, ref, optLists, nBound, live, target,
                   headers, scopes>>

\* the page/per_page branch: one request, every object of the answer
ListPage ==
    /\ pc = "list_page"
    /\ data' = [data EXCEPT
                  !.page = IF Truthy(loc.page) THEN loc.page ELSE @,
                  !.per_page = IF Truthy(loc.per_page) THEN loc.per_page ELSE @]
    /\ requests' = Append(requests, data')
    /\ ret' = ret \o WrapAll(Reply(server, data'))
    /\ pc' = "done"
    /\ outcome' = [kind |-> "return"]
    /\ UNCHANGED <<server, args, loc, gen, iter, ref, optLists, nBound, live, target,
                   headers, scopes>>

\* LimitKeep without the cut of the final page
LimitKeep_NoCut(objs, i, limit) == objs

\* the objects the limit branch keeps of page i
LimitKeep(objs, i, limit) ==
    LET remainder == limit % _MAX_PER_PAGE
    IN  IF remainder # 0 /\ i = NumPages(limit)
        THEN SubSeq(objs, 1, Min(remainder, Len(objs)))
        ELSE objs

\* one iteration of the for loop of the limit branch
ListLimitStep ==
    /\ pc = "list_limit"
    /\ iter <= NumPages(loc.limit[1])
    /\ data' = [data EXCEPT !.per_page = Some(_MAX_PER_PAGE), !.page = Some(iter)]
    /\ requests' = Append(requests, data')
    /\ ret' = ret \o WrapAll(LimitKeep(Reply(server, data'), iter, loc.limit[1]))
    /\ iter' = iter + 1
    /\ pc' = IF iter' > NumPages(loc.limit[1]) THEN "done" ELSE pc
    /\ outcome' = IF pc' = "done" THEN [kind |-> "return"] ELSE outcome
    /\ UNCHANGED <<server, args, loc, gen, ref, optLists, nBound, live, target,
                   headers, scopes>>

\* the full listing: the for loop over _query_list appends what one
\* iteration of the generator yields
ListFullStep ==
    /\ pc = "list_full"
    /\ gen.state = "run"
    /\ LET it == QueryListIter(gen, data, server)
       IN  /\ data' = it.req
           /\ requests' = Append(requests, it.req)
           /\ ret' = ret \o it.gen.buf
           /\ gen' = [it.gen EXCEPT !.buf = <<>>]
           /\ pc' = IF it.gen.state = "finished" THEN "done" ELSE pc
           /\ outcome' = IF pc' = "done" THEN [kind |-> "return"] ELSE outcome
    /\ UNCHANGED <<server, args, loc, iter, ref, optLists, nBound, live, target,
                   headers, scopes>>

\* fn returns ret; a call without page and per_page is remembered as the
\* reference list(limit=L) of this server
ListReturn ==
    /\ pc = "done"
    /\ args.op = "list"
    /\ ref' = IF args.page = None /\ args.per_page = None
              THEN Some([limit |-> args.limit, requests |-> requests, ret |-> ret])
              ELSE ref
    /\ pc' = "idle"
    /\ args' = NoArgs
    /\ loc' = ListLocals(None, None, None)
    /\ data' = NoData
    /\ gen' = GenIdle
    /\ iter' = 1
    /\ requests' = <<>>
    /\ ret' = <<>>
    /\ outcome' = NoOutcome
    /\ UNCHANGED <<server, optLists, nBound, live, target,
                   headers, scopes>>

\* the pages a modelled server serves
Pages == {<<>>, PageA, PageB}

RECURSIVE SeqsUpTo(_, _)
\* all sequences over S of length at most n
SeqsUpTo(S, n) ==
    IF n = 0 THEN {<<>>}
    ELSE LET shorter == SeqsUpTo(S, n - 1)
         IN  shorter \cup {Append(s, x) : s \in shorter, x \in S}

Servers == [pages : SeqsUpTo(Pages, MaxPages), tail : {"empty", "repeat"}]

\* GitLab.__init__: the headers of a connection made with a token
InitHeaders == [k \in {"PRIVATE-TOKEN"} |-> "t0"]

InitRest ==
    /\ pc = "idle"
    /\ args = NoArgs
    /\ loc = ListLocals(None, None, None)
    /\ data = NoData
    /\ gen = GenIdle
    /\ iter = 1
    /\ requests = <<>>
    /\ ret = <<>>
    /\ outcome = NoOutcome
    /\ ref = None
    /\ nBound = 0
    /\ live = {}
    /\ target = None
    /\ headers = InitHeaders
    /\ scopes = <<>>

InitList ==
    /\ server \in Servers
    /\ optLists = <<>>
    /\ InitRest

NextList ==
    \/ \E l \in Limits, p \in PageArgs, q \in PerPageArgs : ListCall(l, p, q)
    \/ ListPage
    \/ ListLimitStep
    \/ ListFullStep
    \/ ListReturn

SpecList == InitList /\ [][NextList]_vars

-----------------------------------------------------------------------------
(* find(): _add_find_fn.fn and _find_matches                               *)

\* the keyword arguments a caller passes: the match criteria in the order
\* kwargs.items() yields them, and the control options
PredArgs ==
    {<<>>,
     <<[f |-> "name", v |-> "x"]>>,
     <<[f |-> "name", v |-> "z"]>>,
     <<[f |-> "id", v |-> "3"]>>,
     <<[f |-> "id", v |-> "1"], [f |-> "name", v |-> "x"]>>,
     <<[f |-> "name", v |-> "x"], [f |-> "id", v |-> "1"]>>}

CachedArgs == {None, Some(<<>>), Some(WrapAll(PageC))}

FindAllArgs == {None, Some(FALSE), Some(TRUE)}

SudoArgs == {None, Some("root")}

\* "not kwargs": no keyword argument at all was passed
NoKwargs(preds, cached, find_all, sudo) ==
    preds = <<>> /\ cached = None /\ find_all = None /\ sudo = None

\* "not objects": no cached collection, or an empty one
NotObjects(cached) == cached = None \/ cached[1] = <<>>

\* find_all after the try/except: False unless given
FindAll(a) == a.find_all # None /\ a.find_all[1]

RECURSIVE FindMatch(_, _)
\* the inner loop of _find_matches on one object: getattr(obj, param) of a
\* field the object lacks raises, a differing value ends the loop
FindMatch(obj, preds) ==
    IF preds = <<>> THEN "match"
    ELSE IF obj.fields[Head(preds).f] = Missing THEN "raise"
    ELSE IF obj.fields[Head(preds).f] # Head(preds).v THEN "nomatch"
    ELSE FindMatch(obj, Tail(preds))

FindCall(preds, cached, find_all, sudo) ==
    /\ pc = "idle"
    /\ args' = [op |-> "find", preds |-> preds, cached |-> cached,
                find_all |-> find_all, sudo |-> sudo]
    /\ IF NoKwargs(preds, cached, find_all, sudo)
       THEN /\ pc' = "done"
            /\ outcome' = [kind |-> "raise", exc |-> "TypeError"]
            /\ data' = NoData
            /\ gen' = GenIdle
       ELSE /\ outcome' = NoOutcome
            /\ data' = [NoData EXCEPT !.sudo = sudo]
            /\ pc' = IF NotObjects(cached) THEN "find_stream" ELSE "find_cached"
            /\ gen' = IF NotObjects(cached) THEN GenStart ELSE GenIdle
    /\ iter' = 1
    /\ requests' = <<>>
    /\ ret' = <<>>
    /\ UNCHANGED <<server, loc, ref, optLists, nBound, live, target,
                   headers, scopes>>

\* the body of "for obj in objects" for one object
FindVisit(obj) ==
    LET m == FindMatch(obj, args.preds)
    IN  /\ ret' = IF m = "match" /\ FindAll(args) THEN Append(ret, obj) ELSE ret
        /\ outcome' = IF m = "raise"
                        THEN [kind |-> "raise", exc |-> "AttributeError"]
                      ELSE IF m = "match" /\ ~FindAll(args)
                        THEN [kind |-> "return", value |-> <<obj>>]
                      ELSE outcome
        /\ pc' = IF outcome'.kind = "none" THEN pc ELSE "done"

\* the end of "for obj in objects": None, or every match
FindEnd ==
    /\ outcome' = [kind |-> "return",
                   value |-> IF FindAll(args) THEN ret ELSE None]
    /\ pc' = "done"

\* _find_matches over the cached collection
FindCachedStep ==
    /\ pc = "find_cached"
    /\ IF iter <= Len(args.cached[1])
       THEN FindVisit(args.cached[1][iter]) /\ iter' = iter + 1
       ELSE FindEnd /\ UNCHANGED <<iter, ret>>
    /\ UNCHANGED <<server, args, loc, data, gen, requests, ref, optLists,
                   nBound, live, target,
                   headers, scopes>>

\* _find_matches over the generator: the next object of the page at hand,
\* else one more iteration of _query_list, else the end of the loop
FindStreamStep ==
    /\ pc = "find_stream"
    /\ IF gen.buf # <<>>
       THEN /\ FindVisit(Head(gen.buf))
            /\ gen' = [gen EXCEPT !.buf = Tail(gen.buf)]
            /\ UNCHANGED <<data, requests>>
       ELSE IF gen.state = "run"
       THEN LET it == QueryListIter(gen, data, server)
            IN  /\ data' = it.req
                /\ requests' = Append(requests, it.req)
                /\ gen' = it.gen
                /\ UNCHANGED <<pc, ret, outcome>>
       ELSE FindEnd /\ UNCHANGED <<data, requests, gen, ret>>
    /\ UNCHANGED <<server, args, loc, iter, ref, optLists, nBound, live, target,
                   headers, scopes>>

FindReturn ==
    /\ pc = "done"
    /\ args.op = "find"
    /\ pc' = "idle"
    /\ args' = NoArgs
    /\ data' = NoData
    /\ gen' = GenIdle
    /\ iter' = 1
    /\ requests' = <<>>
    /\ ret' = <<>>
    /\ outcome' = NoOutcome
    /\ UNCHANGED <<server, loc, ref, optLists, nBound, live, target,
                   headers, scopes>>

FindServers == [pages : SeqsUpTo({<<>>, PageA, PageC}, MaxPages),
                tail : {"empty", "repeat"}]

InitFind ==
    /\ server \in FindServers
    /\ optLists = <<>>
    /\ InitRest

NextFind ==
    \/ \E p \in PredArgs, c \in CachedArgs, a \in FindAllArgs, s \in SudoArgs :
          FindCall(p, c, a, s)
    \/ FindCachedStep
    \/ FindStreamStep
    \/ FindReturn

SpecFind == InitFind /\ [][NextFind]_vars

-----------------------------------------------------------------------------
(* The definition tree (_api_definition.py), _add_api and create()         *)

\* the list objects behind the optional_params attributes: "base" is the
\* list of APIDefinition, which every class that declares none shares
DeclaredOptional ==
    [base |-> <<>>,
     Project |-> <<"description", "default_branch", "issues_enabled",
                   "wall_enabled", "merge_requests_enabled", "wiki_enabled",
                   "snippets_enabled", "public">>,
     Project_Issue |-> <<"description", "assignee_id", "milestone_id",
                         "labels", "state_event">>,
     MergeRequest |-> <<"assignee_id">>,
     Milestone |-> <<"description", "due_date", "state_event">>,
     Snippet |-> <<"lifetime">>,
     File |-> <<"path", "ref_name">>,
     Commit |-> <<"ref_name">>,
     User |-> <<"skype", "linkedin", "twitter", "projects_limit",
                "extern_uid", "provider", "bio", "admin",
                "can_create_group">>]

\* the classes of the tree: required_params, the list object the class's
\* optional_params names, whether _ADD is among its actions, its sub_apis
Definitions ==
    [CurrentUser |-> [required |-> <<>>, optional |-> "base", add |-> FALSE,
                      sub_apis |-> <<"SSHKey">>],
     SSHKey |-> [required |-> <<"title", "key">>, optional |-> "base",
                 add |-> TRUE, sub_apis |-> <<>>],
     Issue |-> [required |-> <<>>, optional |-> "base", add |-> FALSE,
                sub_apis |-> <<>>],
     Group |-> [required |-> <<"name", "path">>, optional |-> "base",
                add |-> TRUE, sub_apis |-> <<"Group_Member">>],
     Group_Member |-> [required |-> <<"user_id", "access_level">>,
                       optional |-> "base", add |-> TRUE, sub_apis |-> <<>>],
     SystemHook |-> [required |-> <<"url">>, optional |-> "base",
                     add |-> TRUE, sub_apis |-> <<>>],
     Project |-> [required |-> <<"name">>, optional |-> "Project",
                  add |-> TRUE,
                  sub_apis |-> <<"Branch", "DeployKey", "Event", "Hook",
                                 "Project_Issue", "Member", "MergeRequest",
                                 "Milestone", "Snippet", "Tag", "File",
                                 "Commit", "WallNote">>],
     Branch |-> [required |-> <<>>, optional |-> "base", add |-> FALSE,
                 sub_apis |-> <<>>],
     DeployKey |-> [required |-> <<"title", "key">>, optional |-> "base",
                    add |-> TRUE, sub_apis |-> <<>>],
     Event |-> [required |-> <<>>, optional |-> "base", add |-> FALSE,
                sub_apis |-> <<>>],
     Hook |-> [required |-> <<"url">>, optional |-> "base", add |-> TRUE,
               sub_apis |-> <<>>],
     Project_Issue |-> [required |-> <<"title">>, optional |-> "Project_Issue",
                        add |-> TRUE, sub_apis |-> <<"Note">>],
     Note |-> [required |-> <<"body">>, optional |-> "base", add |-> TRUE,
               sub_apis |-> <<>>],
     Member |-> [required |-> <<"user_id", "access_level">>,
                 optional |-> "base", add |-> TRUE, sub_apis |-> <<>>],
     MergeRequest |-> [required |-> <<"source_branch", "target_branch", "title">>,
                       optional |-> "MergeRequest", add |-> TRUE,
                       sub_apis |-> <<"Note">>],
     Milestone |-> [required |-> <<"title">>, optional |-> "Milestone",
                    add |-> TRUE, sub_apis |-> <<>>],
     Snippet |-> [required |-> <<"title", "file_name", "code">>,
                  optional |-> "Snippet", add |-> TRUE,
                  sub_apis |-> <<"Note">>],
     Tag |-> [required |-> <<>>, optional |-> "base", add |-> FALSE,
              sub_apis |-> <<>>],
     File |-> [required |-> <<>>, optional |-> "File", add |-> FALSE,
               sub_apis |-> <<>>],
     Commit |-> [required |-> <<>>, optional |-> "Commit", add |-> FALSE,
                 sub_apis |-> <<>>],
     WallNote |-> [required |-> <<"body">>, optional |-> "base", add |-> TRUE,
                   sub_apis |-> <<>>],
     User |-> [required |-> <<"email", "password", "username", "name">>,
               optional |-> "User", add |-> TRUE,
               sub_apis |-> <<"User_SSHKey">>],
     User_SSHKey |-> [required |-> <<"title", "key">>, optional |-> "base",
                      add |-> TRUE, sub_apis |-> <<>>],
     Team |-> [required |-> <<"name", "path">>, optional |-> "base",
               add |-> TRUE, sub_apis |-> <<"Member", "Team_Project">>],
     Team_Project |-> [required |-> <<"project_id", "greatest_access_level">>,
                       optional |-> "base", add |-> TRUE, sub_apis |-> <<>>]]

\* GitLab.sub_apis
RootSubApis ==
    <<"CurrentUser", "Issue", "Group", "SystemHook", "Project", "User", "Team">>

DefNames == DOMAIN Definitions

\* the definitions that list d among their sub_apis ("GitLab" is the root)
ParentsOf(d) ==
    {q \in DefNames : \E i \in 1..Len(Definitions[q].sub_apis) :
                          Definitions[q].sub_apis[i] = d}
    \cup (IF \E i \in 1..Len(RootSubApis) : RootSubApis[i] = d
          THEN {"GitLab"} ELSE {})

\* a parent object of d exists: the connection, or an instance of a parent
HasParent(d) ==
    \E q \in ParentsOf(d) : q = "GitLab" \/ q \in live

\* definition.optional_params.append('sudo') on the list object itself
AppendSudo(heap, d) ==
    [heap EXCEPT ![Definitions[d].optional] = Append(@, "sudo")]

RECURSIVE AddApi(_, _)
RECURSIVE AddApis(_, _)
\* _add_api(definition, parent) as far as it touches the definitions: the
\* append, then the recursion over sub_apis
AddApi(heap, d) == AddApis(AppendSudo(heap, d), Definitions[d].sub_apis)

\* for sub_api in sub_apis: _add_api(sub_api, ...)
AddApis(heap, ds) ==
    IF ds = <<>> THEN heap ELSE AddApis(AddApi(heap, Head(ds)), Tail(ds))

\* number of binding passes a behaviour of the model runs
MaxBinds == 3

\* most positional arguments passed to create beyond the declared maximum
MaxExtraArgs == 2

\* GitLab.__init__: binds every definition of the tree
GitLabInit ==
    /\ pc = "idle"
    /\ nBound < MaxBinds
    /\ optLists' = AddApis(optLists, RootSubApis)
    /\ nBound' = nBound + 1
    /\ UNCHANGED <<pc, server, args, loc, data, gen, iter, requests, ret,
                   outcome, ref, live, target,
                   headers, scopes>>

\* _GitLabAPI.__init__ of an instance of d (from get, list, create or
\* find): binds the definitions of d's sub_apis on the instance
NewInstance(d) ==
    /\ pc = "idle"
    /\ 0 < nBound /\ nBound < MaxBinds
    /\ HasParent(d)
    /\ optLists' = AddApis(optLists, Definitions[d].sub_apis)
    /\ nBound' = nBound + 1
    /\ live' = live \cup {d}
    /\ UNCHANGED <<pc, server, args, loc, data, gen, iter, requests, ret,
                   outcome, ref, target,
                   headers, scopes>>

\* the arity test of create's fn on the captured list objects
CreateArityOk(n, required_params, optional_params) ==
    /\ ~(n < Len(required_params))
    /\ ~(n > Len(required_params) + Len(optional_params))

\* the name kwargs gets for positional argument i (1-based)
CreateParam(i, required_params, optional_params) ==
    IF i <= Len(required_params) THEN required_params[i]
    ELSE optional_params[i - Len(required_params)]

\* add_<name>(*args) with n positional arguments on a parent of d
Create(d, n) ==
    /\ pc = "idle"
    /\ nBound > 0
    /\ Definitions[d].add
    /\ HasParent(d)
    /\ LET required_params == Definitions[d].required
           optional_params == optLists[Definitions[d].optional]
       IN  /\ args' = [op |-> "create", def |-> d, n |-> n]
           /\ IF CreateArityOk(n, required_params, optional_params)
              THEN /\ requests' =
                         <<[verb |-> "POST", def |-> d,
                            data |-> {CreateParam(i, required_params,
                                                  optional_params) : i \in 1..n}]>>
                   /\ outcome' = [kind |-> "return"]
              ELSE /\ requests' = <<>>
                   /\ outcome' = [kind |-> "raise", exc |-> "TypeError"]
    /\ pc' = "done"
    /\ UNCHANGED <<server, loc, data, gen, iter, ret, ref, optLists, nBound,
                   live, target,
                   headers, scopes>>

CreateReturn ==
    /\ pc = "done"
    /\ args.op = "create"
    /\ pc' = "idle"
    /\ args' = NoArgs
    /\ requests' = <<>>
    /\ outcome' = NoOutcome
    /\ UNCHANGED <<server, loc, data, gen, iter, ret, ref, optLists, nBound,
                   live, target,
                   headers, scopes>>

\* the positional argument counts tried on definition d
ArgCounts(d) ==
    0..(Len(Definitions[d].required) + Len(DeclaredOptional[Definitions[d].optional])
        + MaxExtraArgs)

InitCreate ==
    /\ server = [pages |-> <<>>, tail |-> "empty"]
    /\ optLists = DeclaredOptional
    /\ InitRest

NextCreate ==
    \/ GitLabInit
    \/ \E d \in DefNames : NewInstance(d)
    \/ \E d \in DefNames : \E n \in ArgCounts(d) : Create(d, n)
    \/ CreateReturn

SpecCreate == InitCreate /\ [][NextCreate]_vars

-----------------------------------------------------------------------------
(* URL resolution: _GitLabAPI._get_keys and _GitLabAPI._get_url            *)

(* A URL is a sequence of tokens: "/", ":" and names (strings that hold    *)
(* neither character).  An identity is an integer id or a string, kept as  *)
(* the tokens of its text.                                                 *)

IntId(n) == [kind |-> "int", n |-> n]

StrId(toks) == [kind |-> "str", toks |-> toks]

\* str(key)
KeyStr(key) ==
    IF key.kind = "int"
    THEN <<(<<"0", "1", "2", "3", "4", "5", "6", "7", "8", "9">>)[key.n + 1]>>
    ELSE key.toks

\* truth value of api._id: None, 0 and "" are false
IdTruthy(id) ==
    /\ id # None
    /\ IF id[1].kind = "int" THEN id[1].n # 0 ELSE id[1].toks # <<>>

SetMin(S) == CHOOSE x \in S : \A y \in S : x <= y

\* start of the leftmost match of :[^/]+ in u, 0 when there is none
FirstMatch(u) ==
    LET starts == {i \in 1..Len(u) : u[i] = ":" /\ i < Len(u) /\ u[i + 1] # "/"}
    IN  IF starts = {} THEN 0 ELSE SetMin(starts)

\* end of the (greedy) match of :[^/]+ that starts at i
MatchEnd(u, i) ==
    LET stops == {j \in (i + 1)..Len(u) : u[j] = "/"}
    IN  IF stops = {} THEN Len(u) ELSE SetMin(stops) - 1

RECURSIVE CountMatches(_)
\* len(re.findall(r':[^/]+', api_url))
CountMatches(u) ==
    IF FirstMatch(u) = 0 THEN 0
    ELSE 1 + CountMatches(SubSeq(u, MatchEnd(u, FirstMatch(u)) + 1, Len(u)))

\* re.sub(r':[^/]+', str(key), api_url, 1)
SubOnce(u, key) ==
    IF FirstMatch(u) = 0 THEN u
    ELSE SubSeq(u, 1, FirstMatch(u) - 1) \o KeyStr(key)
         \o SubSeq(u, MatchEnd(u, FirstMatch(u)) + 1, Len(u))

RECURSIVE SubAll(_, _)
\* for key in keys: api_url = re.sub(..., api_url, 1)
SubAll(u, keys) ==
    IF keys = <<>> THEN u ELSE SubAll(SubOnce(u, Head(keys)), Tail(keys))

Reverse(q) == [i \in 1..Len(q) |-> q[Len(q) + 1 - i]]

RECURSIVE ChainIds(_)
\* the while loop of _get_keys: chain holds the _id of self, of its parent,
\* and so on; the root connection (with _id None) ends every chain
ChainIds(chain) ==
    IF chain = <<>> \/ ~IdTruthy(Head(chain)) THEN <<>>
    ELSE <<Head(chain)[1]>> \o ChainIds(Tail(chain))

\* _get_keys without the final reverse
GetKeys_NoReverse(chain, addl_keys) == addl_keys \o ChainIds(chain)

\* _get_keys(addl_keys)
GetKeys(chain, addl_keys) == Reverse(addl_keys \o ChainIds(chain))

\* keys[-num_url_keys:] (keys[-0:] is the whole list)
KeysTail(keys, n) ==
    IF n = 0 \/ n >= Len(keys) THEN keys
    ELSE SubSeq(keys, Len(keys) - n + 1, Len(keys))

\* gitlab_url + "/api/v3"
BaseUrl == <<"<gitlab_url>", "/", "api", "/", "v3">>

\* _get_url(api_url, addl_keys)
GetUrl(chain, api_url, addl_keys) ==
    BaseUrl \o SubAll(api_url,
                      KeysTail(GetKeys(chain, addl_keys), CountMatches(api_url)))

\* qualified URLs of the tree (parent _q_url + own url)
UrlProject == <<"/", "projects", "/", ":", "id">>

UrlProjectIssue == UrlProject \o <<"/", "issues", "/", ":", "issue_id">>

UrlProjectIssueNote == UrlProjectIssue \o <<"/", "notes", "/", ":", "note_id">>

UrlCurrentUser == <<"/", "user">>

UrlCurrentUserKey == UrlCurrentUser \o <<"/", "keys", "/", ":", "id">>

UrlBranchProtect ==
    UrlProject \o <<"/", "repository", "/", "branches", "/", ":", "branch",
                    "/", "protect">>

Templates == {UrlProject, UrlProjectIssue, UrlProjectIssueNote,
              UrlCurrentUser, UrlCurrentUserKey, UrlBranchProtect}

\* deepest ownership chain of the model
MaxDepth == 3

\* the identities objects carry: numeric ids and names
Identities == {IntId(1), IntId(2), StrId(<<"master">>),
               StrId(<<"feature", "/", "x">>)}

\* ownership chains, innermost first; an object may carry no identity
Chains == SeqsUpTo({None} \cup {Some(k) : k \in Identities}, MaxDepth)

\* self._get_url(api_url) on the instance held in target
Resolve(api_url) ==
    /\ pc = "idle"
    /\ target # None
    /\ args' = [op |-> "get_url", api_url |-> api_url]
    /\ outcome' = [kind |-> "return",
                   value |-> GetUrl(target[1].chain, api_url, <<>>)]
    /\ pc' = "done"
    /\ UNCHANGED <<server, loc, data, gen, iter, requests, ret, ref, optLists,
                   nBound, live, target,
                   headers, scopes>>

ResolveReturn ==
    /\ pc = "done"
    /\ args.op = "get_url"
    /\ pc' = "idle"
    /\ args' = NoArgs
    /\ outcome' = NoOutcome
    /\ UNCHANGED <<server, loc, data, gen, iter, requests, ret, ref, optLists,
                   nBound, live, target,
                   headers, scopes>>

InitUrl ==
    /\ pc = "idle"
    /\ server = [pages |-> <<>>, tail |-> "empty"]
    /\ args = NoArgs
    /\ loc = ListLocals(None, None, None)
    /\ data = NoData
    /\ gen = GenIdle
    /\ iter = 1
    /\ requests = <<>>
    /\ ret = <<>>
    /\ outcome = NoOutcome
    /\ ref = None
    /\ optLists = <<>>
    /\ nBound = 0
    /\ live = {}
    /\ headers = InitHeaders
    /\ scopes = <<>>
    /\ target \in {Some([chain |-> c]) : c \in Chains}

NextUrl ==
    \/ \E u \in Templates : Resolve(u)
    \/ ResolveReturn

SpecUrl == InitUrl /\ [][NextUrl]_vars

-----------------------------------------------------------------------------
(* Transport: _GitLabAPI._request and _check_status_code                   *)

\* _code_to_exc[status_code]; a code the dict lacks raises KeyError
CodeToExc(status_code) ==
    CASE status_code = 400 -> "MissingRequiredAttribute"
      [] status_code = 401 -> "UnauthorizedRequest"
      [] status_code = 403 -> "ForbiddenRequest"
      [] status_code = 404 -> "ResourceNotFound"
      [] status_code = 405 -> "RequestNotSupported"
      [] status_code = 409 -> "ResourceConflict"
      [] status_code = 500 -> "ServerError"
      [] OTHER -> "KeyError"

\* _check_status_code with "<= 400" for "< 400"
CheckStatusCode_Inclusive(status_code) ==
    IF status_code <= 400 THEN "ok" ELSE CodeToExc(status_code)

\* _check_status_code: "ok" when it returns, else the exception it raises
CheckStatusCode(status_code) ==
    IF status_code < 400 THEN "ok" ELSE CodeToExc(status_code)

\* json.loads(r.content.decode()), falling back to r.content on ValueError
Payload(content) ==
    IF content.json # None
    THEN [parsed |-> TRUE, value |-> content.json[1]]
    ELSE [parsed |-> FALSE, value |-> content.text]

\* what is put on the wire: GET and HEAD carry data in the query string
WireRequest(verb, url, d) ==
    IF verb \in {"GET", "HEAD"}
    THEN [verb |-> verb, url |-> url, query |-> Some(d), body |-> None]
    ELSE [verb |-> verb, url |-> url, query |-> None, body |-> Some(d)]

\* _request(request_fn, api_url, addl_keys, data) on an object with the
\* given chain, the server (or the network) answering resp
Request(chain, verb, api_url, addl_keys, d, resp) ==
    [req |-> WireRequest(verb, GetUrl(chain, api_url, addl_keys), d),
     out |-> IF resp.kind = "fail"
               THEN [kind |-> "raise", exc |-> "ConnectionError"]
             ELSE IF CheckStatusCode(resp.status) # "ok"
               THEN [kind |-> "raise", exc |-> CheckStatusCode(resp.status)]
             ELSE [kind |-> "return", value |-> Payload(resp.content)]]

\* the status codes a server answers with
StatusCodes == {200, 201, 204, 304, 399, 400, 401, 403, 404, 405, 409, 422,
                500, 502}

\* response bodies: a JSON document, plain text
Contents == {[text |-> "{\"id\": 1}", json |-> Some([id |-> "1"])],
             [text |-> "raw file content", json |-> None]}

\* the answers to a request: a network failure (RequestException) or a
\* response
Responses ==
    {[kind |-> "fail"]}
    \cup [kind : {"resp"}, status : StatusCodes, content : Contents]

Verbs == {"GET", "POST", "PUT", "DELETE"}

DataArgs == {{}, {<<"name", "x">>}}

\* self._get / _post / _put / _delete (api_url, data=d) on the target
RequestCall(verb, api_url, d, resp) ==
    /\ pc = "idle"
    /\ target # None
    /\ args' = [op |-> "request", verb |-> verb, api_url |-> api_url,
                data |-> d, resp |-> resp]
    /\ LET r == Request(target[1].chain, verb, api_url, <<>>, d, resp)
       IN  /\ requests' = <<r.req>>
           /\ outcome' = r.out
    /\ pc' = "done"
    /\ UNCHANGED <<server, loc, data, gen, iter, ret, ref, optLists, nBound,
                   live, target,
                   headers, scopes>>

RequestReturn ==
    /\ pc = "done"
    /\ args.op = "request"
    /\ pc' = "idle"
    /\ args' = NoArgs
    /\ requests' = <<>>
    /\ outcome' = NoOutcome
    /\ UNCHANGED <<server, loc, data, gen, iter, ret, ref, optLists, nBound,
                   live, target,
                   headers, scopes>>

\* every variable but target at its initial value
InitButTarget ==
    /\ pc = "idle"
    /\ server = [pages |-> <<>>, tail |-> "empty"]
    /\ args = NoArgs
    /\ loc = ListLocals(None, None, None)
    /\ data = NoData
    /\ gen = GenIdle
    /\ iter = 1
    /\ requests = <<>>
    /\ ret = <<>>
    /\ outcome = NoOutcome
    /\ ref = None
    /\ optLists = <<>>
    /\ nBound = 0
    /\ live = {}
    /\ headers = InitHeaders
    /\ scopes = <<>>

InitRequest ==
    /\ InitButTarget
    /\ target \in {Some([chain |-> c]) :
                     c \in {<<>>, <<Some(IntId(1))>>, <<Some(IntId(2)), Some(IntId(1))>>}}

NextRequest ==
    \/ \E v \in Verbs, u \in {UrlProject, UrlCurrentUser}, d \in DataArgs,
          r \in Responses : RequestCall(v, u, d, r)
    \/ RequestReturn

SpecRequest == InitRequest /\ [][NextRequest]_vars

-----------------------------------------------------------------------------
(* Extra actions: _add_extra_fn and Project.ProtectBranchAction.wrapper    *)

\* Project.ProtectBranchAction and Project.UnprotectBranchAction; protected
\* is the value their wrapper sets on the branch object
ProtectBranchAction ==
    [name |-> "protect_branch",
     url |-> <<"/", "repository", "/", "branches", "/", ":", "branch", "/",
               "protect">>,
     method |-> "PUT", required_params |-> <<>>, protected |-> "True"]

UnprotectBranchAction ==
    [name |-> "unprotect_branch",
     url |-> <<"/", "repository", "/", "branches", "/", ":", "branch", "/",
               "unprotect">>,
     method |-> "PUT", required_params |-> <<>>, protected |-> "False"]

\* re.findall(':(\w+)', action_def.url): the number of URL parameters
NumUrlParams(url) ==
    Cardinality({i \in 1..Len(url) :
                    url[i] = ":" /\ i < Len(url) /\ url[i + 1] \notin {"/", ":"}})

\* url.replace('merge_requests', 'merge_request')
FixMergeRequest(url) ==
    [i \in 1..Len(url) |->
        IF url[i] = "merge_requests" THEN "merge_request" ELSE url[i]]

\* the dispatch function fn(*args) built by _add_extra_fn for an action of
\* the class with qualified URL q_url: fnargs is <<_self, arg, ...>>
ExtraFn(q_url, action_def, fnargs, resp) ==
    LET num_url     == NumUrlParams(action_def.url)
        num_req     == num_url + Len(action_def.required_params) + 1
        url         == FixMergeRequest(q_url \o action_def.url)
    IN  IF Len(fnargs) # num_req
        THEN [req |-> None, out |-> [kind |-> "raise", exc |-> "TypeError"]]
        ELSE LET r == Request(fnargs[1], action_def.method, url,
                              SubSeq(fnargs, 2, 1 + num_url),
                              {<<action_def.required_params[i],
                                 fnargs[1 + num_url + i]>> :
                                   i \in 1..Len(action_def.required_params)},
                              resp)
             IN  [req |-> Some(r.req), out |-> r.out]

\* getattr(branch, 'name', branch): a str has no attribute name
BranchName(branch) ==
    IF branch.kind = "obj" THEN branch.name ELSE branch.text

\* setattr(branch, 'protected', v): AttributeError (swallowed) on a str
SetProtected(branch, v) ==
    IF branch.kind = "obj" THEN [branch EXCEPT !.protected = v] ELSE branch

\* wrapped(self, branch) with the setattr moved before the request
Wrapped_SetFirst(self, branch, action_def, resp) ==
    LET r == ExtraFn(UrlProject, action_def,
                     <<self, StrId(BranchName(branch))>>, resp)
    IN  [req |-> r.req,
         out |-> IF r.out.kind = "raise" THEN r.out ELSE [kind |-> "return"],
         branch |-> SetProtected(branch, action_def.protected)]

\* wrapped(self, branch) of the protect/unprotect wrappers: the request it
\* sends, how it ends and the branch argument afterwards
Wrapped(self, branch, action_def, resp) ==
    LET r == ExtraFn(UrlProject, action_def,
                     <<self, StrId(BranchName(branch))>>, resp)
    IN  IF r.out.kind = "raise"
        THEN [req |-> r.req, out |-> r.out, branch |-> branch]
        ELSE [req |-> r.req, out |-> [kind |-> "return"],
              branch |-> SetProtected(branch, action_def.protected)]

BranchNames == {<<"master">>, <<"feature", "/", "x">>}

\* the branch argument: a plain name, or a Branch object with that name
BranchArgs ==
    [kind : {"str"}, text : BranchNames]
    \cup [kind : {"obj"}, name : BranchNames, protected : {"True", "False"}]

\* project.protect_branch(branch) / project.unprotect_branch(branch)
ProtectBranch(action_def, resp) ==
    /\ pc = "idle"
    /\ target # None
    /\ args' = [op |-> "extra", action |-> action_def,
                branch |-> target[1].branch, resp |-> resp]
    /\ LET w == Wrapped(target[1].chain, target[1].branch, action_def, resp)
       IN  /\ requests' = w.req
           /\ outcome' = w.out
           /\ target' = Some([target[1] EXCEPT !.branch = w.branch])
    /\ pc' = "done"
    /\ UNCHANGED <<server, loc, data, gen, iter, ret, ref, optLists, nBound,
                   live, headers, scopes>>

ProtectBranchReturn ==
    /\ pc = "done"
    /\ args.op = "extra"
    /\ pc' = "idle"
    /\ args' = NoArgs
    /\ requests' = <<>>
    /\ outcome' = NoOutcome
    /\ UNCHANGED <<server, loc, data, gen, iter, ret, ref, optLists, nBound,
                   live, target,
                   headers, scopes>>

InitExtra ==
    /\ InitButTarget
    /\ target \in {Some([chain |-> <<Some(IntId(p))>>, branch |-> b]) :
                     p \in {1, 2}, b \in BranchArgs}

NextExtra ==
    \/ \E a \in {ProtectBranchAction, UnprotectBranchAction}, r \in Responses :
          ProtectBranch(a, r)
    \/ ProtectBranchReturn

SpecExtra == InitExtra /\ [][NextExtra]_vars

-----------------------------------------------------------------------------
(* Impersonation: GitLab.sudo, GitLab.login and the shared _headers dict   *)

\* deepest nesting of "with gl.sudo(...)" blocks
MaxNesting == 3

\* headers[k] = v
HeaderSet(h, k, v) == [x \in DOMAIN h \cup {k} |-> IF x = k THEN v ELSE h[x]]

\* del headers[k]
HeaderDel(h, k) == [x \in DOMAIN h \ {k} |-> h[x]]

SudoUsers == {"alice", "bob"}

\* the private_token a successful login answers with
LoginTokens == {"t1"}

\* how the body of a with block ends: it runs to its end, or it raises
ExitPaths == {"normal", "error"}

\* "with gl.sudo(user):" is entered: sudo.__init__ and sudo.__enter__.  The
\* scope remembers the headers in effect just before it, for the properties.
SudoEnter(user) ==
    /\ pc = "idle"
    /\ Len(scopes) < MaxNesting
    /\ headers' = HeaderSet(headers, "SUDO", user)
    /\ scopes' = <<[user |-> user, entered |-> headers]>> \o scopes
    /\ UNCHANGED <<pc, server, args, loc, data, gen, iter, requests, ret,
                   outcome, ref, optLists, nBound, live, target>>

\* sudo.__exit__ of the innermost scope: it returns None, so an error of the
\* body goes on to the caller; del of an absent key raises KeyError in its
\* place and leaves the dict as it is
SudoExitOutcome(h, path) ==
    IF "SUDO" \notin DOMAIN h THEN [kind |-> "raise", exc |-> "KeyError"]
    ELSE IF path = "error" THEN [kind |-> "raise", exc |-> "BodyError"]
    ELSE [kind |-> "return", value |-> None]

\* the innermost with block is left on the given path
SudoExit(path) ==
    /\ pc = "idle"
    /\ scopes # <<>>
    /\ args' = [op |-> "sudo_exit", scope |-> Head(scopes), path |-> path]
    /\ headers' = HeaderDel(headers, "SUDO")
    /\ outcome' = SudoExitOutcome(headers, path)
    /\ scopes' = Tail(scopes)
    /\ pc' = "done"
    /\ UNCHANGED <<server, loc, data, gen, iter, requests, ret, ref, optLists,
                   nBound, live, target>>

SudoExitReturn ==
    /\ pc = "done"
    /\ args.op = "sudo_exit"
    /\ pc' = "idle"
    /\ args' = NoArgs
    /\ outcome' = NoOutcome
    /\ UNCHANGED <<server, loc, data, gen, iter, requests, ret, ref, optLists,
                   nBound, live, target, headers, scopes>>

\* gl.login(...): a successful session request replaces the headers dict by
\* a new one, an UnauthorizedRequest leaves it
Login(ok, token) ==
    /\ pc = "idle"
    /\ headers' = IF ok THEN [k \in {"PRIVATE-TOKEN"} |-> token] ELSE headers
    /\ UNCHANGED <<pc, server, args, loc, data, gen, iter, requests, ret,
                   outcome, ref, optLists, nBound, live, target, scopes>>

InitSudo ==
    /\ InitButTarget
    /\ target = None

NextSudo ==
    \/ \E u \in SudoUsers : SudoEnter(u)
    \/ \E p \in ExitPaths : SudoExit(p)
    \/ SudoExitReturn
    \/ \E ok \in BOOLEAN, t \in LoginTokens : Login(ok, t)

SpecSudo == InitSudo /\ [][NextSudo]_vars

-----------------------------------------------------------------------------
(* get(): _add_get_fn.fn                                                   *)

UrlProjectBranch ==
    UrlProject \o <<"/", "repository", "/", "branches", "/", ":", "branch">>

UrlProjectMergeRequest ==
    UrlProject \o <<"/", "merge_requests", "/", ":", "merge_request_id">>

\* the key argument: left at its default [], a number, or a string
KeyArgs == {None, Some(IntId(0)), Some(IntId(1)), Some(IntId(2)),
            Some(StrId(<<>>)), Some(StrId(<<"master">>)),
            Some(StrId(<<"feature", "/", "x">>))}

\* key.replace('/', '%2F')
EscapeSlash(key) ==
    StrId([i \in 1..Len(key.toks) |->
              IF key.toks[i] = "/" THEN "%2F" ELSE key.toks[i]])

\* "'/' in key" of a str
HasSlash(key) == \E i \in 1..Len(key.toks) : key.toks[i] = "/"

\* api(parent, data): json_data[self._key_name] of a body that is not a
\* JSON object raises TypeError
NewObj(payload) ==
    IF payload.parsed THEN [kind |-> "return", value |-> ApiObj(payload.value)]
    ELSE [kind |-> "raise", exc |-> "TypeError"]

\* fn(key) of the class with qualified URL q_url on a parent with the given
\* chain: "'/' in key" of a number raises TypeError ("key and" skips the
\* test for 0, "" and [])
GetFn(chain, q_url, key, resp) ==
    IF IdTruthy(key) /\ key[1].kind = "int"
    THEN [req |-> <<>>, out |-> [kind |-> "raise", exc |-> "TypeError"]]
    ELSE LET k == IF IdTruthy(key) /\ HasSlash(key[1])
                  THEN Some(EscapeSlash(key[1])) ELSE key
             r == Request(chain, "GET", FixMergeRequest(q_url), k, {}, resp)
         IN  [req |-> <<r.req>>,
              out |-> IF r.out.kind = "return" THEN NewObj(r.out.value)
                      ELSE r.out]

\* parent.get_<name>(key) on the parent held in target
Get(q_url, key, resp) ==
    /\ pc = "idle"
    /\ target # None
    /\ CountMatches(q_url) = Len(target[1].chain) + 1
    /\ args' = [op |-> "get", api_url |-> q_url, key |-> key, resp |-> resp]
    /\ LET g == GetFn(target[1].chain, q_url, key, resp)
       IN  /\ requests' = g.req
           /\ outcome' = g.out
    /\ pc' = "done"
    /\ UNCHANGED <<server, loc, data, gen, iter, ret, ref, optLists, nBound,
                   live, target, headers, scopes>>

GetReturn ==
    /\ pc = "done"
    /\ args.op = "get"
    /\ pc' = "idle"
    /\ args' = NoArgs
    /\ requests' = <<>>
    /\ outcome' = NoOutcome
    /\ UNCHANGED <<server, loc, data, gen, iter, ret, ref, optLists, nBound,
                   live, target, headers, scopes>>

\* the classes get is called for
GetTemplates == {UrlProject, UrlProjectIssue, UrlProjectBranch,
                 UrlProjectMergeRequest, UrlProjectIssueNote}

InitGet ==
    /\ InitButTarget
    /\ target \in {Some([chain |-> c]) :
                     c \in {<<>>, <<Some(IntId(1))>>,
                            <<Some(IntId(2)), Some(IntId(1))>>}}

NextGet ==
    \/ \E u \in GetTemplates, k \in KeyArgs, r \in Responses : Get(u, k, r)
    \/ GetReturn

SpecGet == InitGet /\ [][NextGet]_vars

-----------------------------------------------------------------------------
(* Claims about list()                                                     *)

\* the call in progress is list() without limit, page or per_page
UnboundedList ==
    /\ args.op = "list"
    /\ args.limit = None /\ args.page = None /\ args.per_page = None

\* pages 0..k-1 of the server are its real pages: non-empty, each unlike the
\* page before it, and every later page is empty or a repeat of page k-1
RealPages(srv, k) ==
    /\ k <= Len(srv.pages)
    /\ \A i \in 1..k : srv.pages[i] # <<>>
    /\ \A i \in 2..k : srv.pages[i] # srv.pages[i - 1]
    /\ \A n \in k..Len(srv.pages) :
          \/ PageAt(srv, n) = <<>>
          \/ k > 0 /\ PageAt(srv, n) = srv.pages[k]

\* C1: unbounded list() on a server whose real pages are 0..k-1 sends at
\* most k+2 requests, every step of the loop either sends one or ends the
\* call, and the call returns page 0 ++ ... ++ page k-1, each item once
C1_UnboundedListYieldsRealPages ==
    UnboundedList =>
        \A k \in 0..Len(server.pages) :
            RealPages(server, k) =>
                /\ Len(requests) <= k + 2
                /\ pc = "list_full" => gen.state = "run"
                /\ pc = "done" =>
                      ret = WrapAll(Concat(SubSeq(server.pages, 1, k)))

\* a finished unbounded list() over three real pages followed by repeats
C1_Witness ==
    /\ UnboundedList
    /\ pc = "done"
    /\ server = [pages |-> <<PageA, PageB, PageA>>, tail |-> "repeat"]
    /\ RealPages(server, 3)
    /\ Len(requests) = 4
    /\ ret = WrapAll(PageA \o PageB \o PageA)

\* page 0 and page 1 of the server are identical and page 2 differs
Page0Is1Not2(srv) ==
    /\ PageAt(srv, 0) = PageAt(srv, 1)
    /\ PageAt(srv, 2) # PageAt(srv, 1)

\* the finished call asked for page 2 third and its result starts with the
\* items of page 0 followed by the items of page 2
WentThroughPage2 ==
    LET want == WrapAll(PageAt(server, 0) \o PageAt(server, 2))
    IN  /\ Len(requests) >= 3
        /\ requests[3].page = Some(2)
        /\ Len(ret) >= Len(want)
        /\ SubSeq(ret, 1, Len(want)) = want

\* C2 as stated: whenever page 0 = page 1 and page 2 differs, unbounded
\* list() goes on to page 2 and returns page 0's items then page 2's
C2_Original ==
    (UnboundedList /\ pc = "done" /\ Page0Is1Not2(server)) => WentThroughPage2

\* C2 amended: whenever page 0 is not empty, page 0 = page 1 and page 2
\* differs, unbounded list() goes on to page 2 and returns page 0's items
\* followed by page 2's, page 1 not being yielded again
C2_Page0Is1ContinuesToPage2 ==
    (UnboundedList /\ pc = "done" /\ Page0Is1Not2(server)
       /\ PageAt(server, 0) # <<>>) => WentThroughPage2

\* a finished unbounded list() on a server whose page 1 repeats page 0
C2_Witness ==
    /\ UnboundedList
    /\ pc = "done"
    /\ server = [pages |-> <<PageA, PageA, PageB>>, tail |-> "empty"]
    /\ ret = WrapAll(PageA \o PageB)
    /\ Len(requests) = 4

\* the finished call sent the requests and returned the result of the
\* reference call list(limit=L) with the same limit
SameAsReference ==
    /\ requests = ref[1].requests
    /\ ret = ref[1].ret

\* C3 as stated: for every limit that is given, list(limit=L, page=p,
\* per_page=q) sends the requests and returns the result of list(limit=L)
C3_Original ==
    (pc = "done" /\ args.op = "list" /\ args.limit # None
       /\ ref # None /\ ref[1].limit = args.limit) => SameAsReference

\* C3 amended: for every limit that is given and is not 0, list(limit=L,
\* page=p, per_page=q) sends the requests and returns the result of
\* list(limit=L), and no request carries the caller's page or per_page
C3_LimitPrecedence ==
    (pc = "done" /\ args.op = "list" /\ Truthy(args.limit)
       /\ ref # None /\ ref[1].limit = args.limit) => SameAsReference

\* list(limit=101, page=2, per_page=1) finished after list(limit=101)
C3_Witness ==
    /\ pc = "done"
    /\ args.op = "list"
    /\ args.limit = Some(_MAX_PER_PAGE + 1)
    /\ args.page = Some(2)
    /\ args.per_page = Some(1)
    /\ ref # None
    /\ ref[1].limit = args.limit
    /\ Len(requests) = 2
    /\ Len(ret) > 0

\* the number of pages of a bounded listing, ceil(L / 100)
CeilPages(L) == CHOOSE n \in 0..L : (n - 1) * 100 < L /\ L <= n * 100

\* what is kept of page i of n of a listing bounded by L
KeptOfPage(srv, i, n, L) ==
    LET objs == Reply(srv, [page |-> Some(i), per_page |-> Some(100),
                            sudo |-> None])
    IN  IF i = n /\ L % 100 # 0
        THEN SubSeq(objs, 1, Min(L % 100, Len(objs)))
        ELSE objs

\* C16: list(limit=L) with L above 100 and no other paging argument sends
\* exactly ceil(L / 100) requests, for pages 1, 2, ... in this order, each
\* with per_page 100, returns the objects of these pages with the last page
\* cut to its first L mod 100 objects when L mod 100 is not 0, and so at
\* most L objects; with 0 < L <= 100 it sends one request with per_page L
C16_BoundedListing ==
    (pc = "done" /\ args.op = "list" /\ Truthy(args.limit)
       /\ args.page = None /\ args.per_page = None) =>
        LET L == args.limit[1]
            n == CeilPages(L)
        IN  IF L > 100
            THEN /\ requests = [i \in 1..n |-> [page |-> Some(i),
                                                 per_page |-> Some(100),
                                                 sudo |-> None]]
                 /\ ret = Concat([i \in 1..n |->
                                     WrapAll(KeptOfPage(server, i, n, L))])
                 /\ Len(ret) <= L
            ELSE requests = <<[page |-> None, per_page |-> Some(L),
                               sudo |-> None]>>

\* list(limit=101) on a server whose page 2 has two objects: two requests
\* were sent and only the first object of page 2 was kept
C16_Witness ==
    /\ pc = "done"
    /\ args.op = "list"
    /\ args.limit = Some(101) /\ args.page = None /\ args.per_page = None
    /\ server.pages = <<PageB, PageA, PageA>>
    /\ Len(requests) = 2
    /\ ret = WrapAll(PageA \o <<ItemX1>>)

-----------------------------------------------------------------------------
(* Claims about find()                                                     *)

\* the candidate exposes every predicate field with an equal value
Matches(obj, preds) ==
    \A i \in 1..Len(preds) : obj.fields[preds[i].f] = preds[i].v

\* the objects of a sequence that match, in order
MatchesIn(objs, preds) ==
    SelectSeq(objs, LAMBDA o : Matches(o, preds))

\* a finished find with criteria, findAll false and no cached collection
StreamingFindDone ==
    /\ pc = "done"
    /\ args.op = "find"
    /\ args.preds # <<>>
    /\ args.cached = None
    /\ ~FindAll(args)

\* C4: a streaming find with findAll false returns the first match of the
\* first page after exactly one request when that page holds a match, and
\* returns the none sentinel when no item of the listing matches
C4_FindEarlyReturn ==
    StreamingFindDone =>
        LET first == MatchesIn(WrapAll(PageAt(server, 0)), args.preds)
            all   == MatchesIn(WrapAll(Concat(server.pages)), args.preds)
        IN  /\ first # <<>> =>
                 /\ outcome = [kind |-> "return", value |-> <<Head(first)>>]
                 /\ Len(requests) = 1
            /\ all = <<>> => outcome = [kind |-> "return", value |-> None]

\* C9: a find without any match criterion raises TypeError (the spec's
\* InvalidArgument) and sends no request, whatever control options it has
C9_FindWithoutCriteriaFails ==
    (pc = "done" /\ args.op = "find" /\ args.preds = <<>>) =>
        /\ outcome = [kind |-> "raise", exc |-> "TypeError"]
        /\ requests = <<>>

\* C10: a find with criteria never raises because a candidate lacks a
\* field: it returns, and what it returns are candidates that expose every
\* predicate field with an equal value
C10_MissingFieldIsNoMatch ==
    (pc = "done" /\ args.op = "find" /\ args.preds # <<>>) =>
        /\ outcome.kind = "return"
        /\ \A i \in 1..Len(outcome.value) : Matches(outcome.value[i], args.preds)
        /\ ~NotObjects(args.cached) =>
              outcome.value =
                  LET m == MatchesIn(args.cached[1], args.preds)
                  IN  IF FindAll(args) \/ m = <<>> THEN m ELSE <<Head(m)>>

\* C11: a find that was given a cached collection, of any size, sends no
\* request: whatever it returns was computed over that collection alone
C11_CachedFindSendsNoRequest ==
    (args.op = "find" /\ args.cached # None) => requests = <<>>

-----------------------------------------------------------------------------
(* Claims about create()                                                   *)

\* C5: create on a definition that declares r required and o optional
\* parameters raises TypeError (the spec's InvalidArgument), sending no
\* request, exactly when n < r or n > r + o, at every point of the
\* connection's life
C5_CreateArity ==
    (pc = "done" /\ args.op = "create") =>
        LET r == Len(Definitions[args.def].required)
            o == Len(DeclaredOptional[Definitions[args.def].optional])
        IN  /\ (outcome = [kind |-> "raise", exc |-> "TypeError"])
                  <=> (args.n < r \/ args.n > r + o)
            /\ outcome.kind = "raise" => requests = <<>>

\* C17: binding leaves the definition tree as declared: at every point,
\* after any number of connections and instances constructed, each
\* optional_params list, the shared one included, holds its declared
\* entries (no code assigns or mutates a required_params list)
C17_DefinitionsImmutable == optLists = DeclaredOptional

-----------------------------------------------------------------------------
(* Claims about URL resolution                                             *)

RECURSIVE FillInOrder(_, _)
\* the template with its placeholders, left to right, replaced by the
\* texts of the given identities, one identity per placeholder
FillInOrder(u, keys) ==
    IF keys = <<>> \/ FirstMatch(u) = 0 THEN u
    ELSE SubSeq(u, 1, FirstMatch(u) - 1) \o KeyStr(Head(keys))
         \o FillInOrder(SubSeq(u, MatchEnd(u, FirstMatch(u)) + 1, Len(u)),
                        Tail(keys))

\* every object of the chain carries an identity
FullChain(chain) == \A i \in 1..Len(chain) : chain[i] # None

\* the identities of a full chain from the outermost ancestor to the object
OuterToInner(chain) == Reverse([i \in 1..Len(chain) |-> chain[i][1]])

\* C8: on a chain of n identities and a template of m <= n placeholders the
\* placeholders are filled left to right with the last m identities of the
\* chain in outermost-to-innermost order, the rightmost with the object's own
C8_UrlResolution ==
    (pc = "done" /\ args.op = "get_url" /\ FullChain(target[1].chain)
       /\ CountMatches(args.api_url) <= Len(target[1].chain)) =>
        LET ids == OuterToInner(target[1].chain)
            m   == CountMatches(args.api_url)
            n   == Len(ids)
        IN  outcome.value =
                BaseUrl \o FillInOrder(args.api_url, SubSeq(ids, n - m + 1, n))

\* a note of issue 2 of project 1 resolved against the two-placeholder
\* issue template: the project's identity is dropped
C8_Witness ==
    /\ pc = "done"
    /\ args.op = "get_url"
    /\ target[1].chain = <<Some(StrId(<<"master">>)), Some(IntId(2)), Some(IntId(1))>>
    /\ args.api_url = UrlProjectIssue
    /\ outcome.value = BaseUrl \o <<"/", "projects", "/", "2", "/", "issues",
                                    "/", "master">>

-----------------------------------------------------------------------------
(* Claims about the transport and the extra actions                        *)

\* the error kind the status mapping names for a status code
KindOfStatus(status) ==
    CASE status = 400 -> "MissingRequiredAttribute"
      [] status = 401 -> "UnauthorizedRequest"
      [] status = 403 -> "ForbiddenRequest"
      [] status = 404 -> "ResourceNotFound"
      [] status = 405 -> "RequestNotSupported"
      [] status = 409 -> "ResourceConflict"
      [] status = 500 -> "ServerError"

\* C6: a response with a status in {400,401,403,404,405,409,500} raises
\* exactly the error kind of that status and returns no payload; a response
\* with a status below 400 raises nothing and returns the parsed payload, or
\* the raw body when the body does not parse
C6_StatusMapping ==
    (pc = "done" /\ args.op = "request" /\ args.resp.kind = "resp") =>
        /\ args.resp.status \in {400, 401, 403, 404, 405, 409, 500} =>
              outcome = [kind |-> "raise", exc |-> KindOfStatus(args.resp.status)]
        /\ args.resp.status < 400 =>
              outcome =
                  [kind |-> "return",
                   value |-> IF args.resp.content.json # None
                             THEN [parsed |-> TRUE,
                                   value |-> args.resp.content.json[1]]
                             ELSE [parsed |-> FALSE,
                                   value |-> args.resp.content.text]]

\* a 404 answer raised ResourceNotFound
C6_Witness ==
    /\ pc = "done"
    /\ args.op = "request"
    /\ args.resp.kind = "resp"
    /\ args.resp.status = 404
    /\ outcome = [kind |-> "raise", exc |-> "ResourceNotFound"]
    /\ Len(requests) = 1

\* the same branch given as a plain name
PlainBranch(branch) == [kind |-> "str", text |-> BranchName(branch)]

\* C7: protect_branch / unprotect_branch sends, for a branch object, the
\* request it sends for the object's plain name (PUT to the project's
\* branches/<name>/protect or unprotect URL, no data); when the request
\* succeeds a passed object has its protected flag set to the action's
\* value; when it raises, the error reaches the caller and the passed
\* argument is unchanged
C7_ProtectWrapper ==
    (pc = "done" /\ args.op = "extra") =>
        LET plain == Wrapped(target[1].chain, PlainBranch(args.branch),
                             args.action, args.resp)
        IN  /\ requests = plain.req
            /\ requests # None
            /\ requests[1].verb = "PUT"
            /\ requests[1].url =
                  BaseUrl \o <<"/", "projects", "/">>
                  \o KeyStr(target[1].chain[1][1])
                  \o <<"/", "repository", "/", "branches", "/">>
                  \o BranchName(args.branch)
                  \o <<"/", IF args.action.protected = "True"
                            THEN "protect" ELSE "unprotect">>
            /\ requests[1].body = Some({})
            /\ (args.resp.kind = "resp" /\ args.resp.status < 400) =>
                  /\ outcome.kind = "return"
                  /\ args.branch.kind = "obj" =>
                        target[1].branch =
                            [args.branch EXCEPT !.protected = args.action.protected]
            /\ (args.resp.kind = "fail" \/ args.resp.status >= 400) =>
                  /\ outcome.kind = "raise"
                  /\ target[1].branch = args.branch

\* protect_branch on an unprotected Branch object succeeded and set its flag
C7_Witness ==
    /\ pc = "done"
    /\ args.op = "extra"
    /\ args.action = ProtectBranchAction
    /\ args.branch = [kind |-> "obj", name |-> <<"feature", "/", "x">>,
                      protected |-> "False"]
    /\ args.resp.kind = "resp"
    /\ args.resp.status = 200
    /\ target[1].branch.protected = "True"
    /\ outcome.kind = "return"

\* the error kinds of the taxonomy under the names the code gives them:
\* the classes of exceptions.py, TypeError for an invalid argument or a
\* type mismatch, and MalformedTemplate
ErrorKinds ==
    {"MissingRequiredAttribute", "UnauthorizedRequest", "ForbiddenRequest",
     "ResourceNotFound", "RequestNotSupported", "ResourceConflict",
     "ServerError", "ConnectionError", "TypeError", "MalformedTemplate"}

\* C13: a request answered with any status code of 400 or above raises an
\* error kind of the taxonomy
C13_TaxonomyClosed ==
    (pc = "done" /\ args.op = "request" /\ args.resp.kind = "resp"
       /\ args.resp.status >= 400) =>
        /\ outcome.kind = "raise"
        /\ outcome.exc \in ErrorKinds

\* C14: a request whose template has more placeholders than there are keys
\* to substitute raises MalformedTemplate and sends nothing, and no request
\* that is sent has a placeholder left in its path
C14_MalformedTemplate ==
    (pc = "done" /\ args.op = "request") =>
        /\ Len(GetKeys(target[1].chain, <<>>)) < CountMatches(args.api_url) =>
              /\ outcome = [kind |-> "raise", exc |-> "MalformedTemplate"]
              /\ requests = <<>>
        /\ \A i \in 1..Len(requests) : FirstMatch(requests[i].url) = 0

-----------------------------------------------------------------------------
(* Claims about impersonation                                              *)

\* C12: whenever a sudo scope has been left, on either path, the headers are
\* those in effect just before that scope was entered, a normal exit
\* returns and an exit by error passes on the error of the body
C12_SudoRestoresHeaders ==
    (pc = "done" /\ args.op = "sudo_exit") =>
        /\ headers = args.scope.entered
        /\ args.path = "normal" => outcome.kind = "return"
        /\ args.path = "error" => outcome = [kind |-> "raise", exc |-> "BodyError"]

-----------------------------------------------------------------------------
(* Claims about get()                                                      *)

\* the key as it is to appear in the path: its text with every slash
\* percent-encoded
PathText(key) == IF key.kind = "int" THEN key ELSE EscapeSlash(key)

\* C15: get(k) with any key k, number or string, sends exactly one GET to
\* the class's URL with the chain's identities in the leading placeholders
\* and k (slashes percent-encoded) in the last, and returns the JSON answer
\* as an instance of the class
C15_GetWithIdentity ==
    (pc = "done" /\ args.op = "get" /\ args.key # None) =>
        /\ Len(requests) = 1
        /\ requests[1].verb = "GET"
        /\ requests[1].url =
              BaseUrl \o FillInOrder(FixMergeRequest(args.api_url),
                                     OuterToInner(target[1].chain)
                                     \o <<PathText(args.key[1])>>)
        /\ (args.resp.kind = "resp" /\ args.resp.status < 400
              /\ args.resp.content.json # None) =>
                 outcome = [kind |-> "return",
                            value |-> ApiObj(args.resp.content.json[1])]

\* the same for the keys "key and" lets through to the slash test as text
C15_HoldsForStrings ==
    (pc = "done" /\ args.op = "get" /\ args.key # None
       /\ (args.key[1].kind = "int" => args.key[1].n = 0)) =>
        C15_GetWithIdentity

====
